---- MODULE Spec2Model ----
(***************************************************************************)
(* Model of src/main.py: the AzureOpenAIChatbot session (moderate_content, *)
(* get_ai_response, save_conversation) and the interactive loop of         *)
(* run_chatbot.                                                            *)
(*                                                                         *)
(* Text is a sequence of tokens: a token is one character, or one literal  *)
(* of the source that no operation of the program looks inside (the system *)
(* prompt, the "User: " tag, the error prefix).  The transcript file       *)
(* conversation_log.txt is the sequence of tokens written to it.  The      *)
(* remote services, the console, the file system, the input stream and the *)
(* interrupt signal are the environment: their outcomes are chosen         *)
(* nondeterministically.  Printing a fixed notice is taken to succeed;     *)
(* displaying the reply and writing the exchange to the file may raise.    *)
(***************************************************************************)
EXTENDS Integers, Sequences, FiniteSets, TLC

VARIABLES
    config,        \* the configuration values present in the environment
    pc,            \* position of run_chatbot: Reading, Moderating, Completing,
                   \* Displaying, Persisting, Handling (the except Exception
                   \* block), Exiting (loop left by break), Aborted; in main:
                   \* Starting (before the session is constructed), Failed
    step,          \* position inside save_conversation while pc = "Persisting"
    history,       \* self.conversation_history
    transcript,    \* content of conversation_log.txt
    buf,           \* texts written to the open file and not yet flushed
    raw_line,      \* the line input() returned, before strip()
    user_input,    \* local user_input of run_chatbot (already stripped)
    ai_response,   \* local ai_response of run_chatbot
    eof,           \* the input stream has reached its end
    budget,        \* input lines the exploration may still read
    modResult,     \* outcome of the moderation call of this iteration
    modInput,      \* text handed to the moderation call of this iteration
    allowed,       \* value returned by moderate_content in this iteration
    complResult,   \* outcome of the completion call of this iteration
    messages,      \* message list of the completion call of this iteration
    nMod,          \* moderation calls issued in this iteration
    nCompl,        \* completion calls issued in this iteration
    histAtRead,    \* history when the input line of this iteration was read
    histAtRequest, \* history when the completion request was issued
    transAtRead,   \* transcript when the input line of this iteration was read
    outcome        \* how the latest iteration ended (the notice it emitted)

vars == <<config, modInput, pc, step, history, transcript, buf, raw_line, user_input,
          ai_response, eof,
          budget, modResult, allowed, complResult, messages, nMod, nCompl,
          histAtRead, histAtRequest, transAtRead, outcome>>

----------------------------------------------------------------------------
(* Bounds of the exploration *)

MaxReads == 3

----------------------------------------------------------------------------
(* Program constants *)

HistoryCutoff == 20

SeparatorLen == 50

SystemPrompt == <<"You are a helpful travel assistant. Provide friendly, informative advice about travel destinations, planning, and tips.">>

ErrorPrefix == <<"Sorry, I encountered an error: ">>

----------------------------------------------------------------------------
(* Text operations *)

Whitespace == {" ", "\t"}

LowerChar(c) ==
    CASE c = "C" -> "c" [] c = "L" -> "l" [] c = "E" -> "e" [] c = "A" -> "a"
      [] c = "R" -> "r" [] c = "X" -> "x" [] c = "I" -> "i" [] c = "T" -> "t"
      [] c = "H" -> "h" [] OTHER -> c

Lower(s) == [i \in 1..Len(s) |-> LowerChar(s[i])]

RECURSIVE LStrip(_)
LStrip(s) ==
    IF s # <<>> /\ Head(s) \in Whitespace THEN LStrip(Tail(s)) ELSE s

RECURSIVE RStrip(_)
RStrip(s) ==
    IF s # <<>> /\ s[Len(s)] \in Whitespace
    THEN RStrip(SubSeq(s, 1, Len(s) - 1))
    ELSE s

Strip(s) == RStrip(LStrip(s))

StartsWith(s, p) == Len(s) >= Len(p) /\ SubSeq(s, 1, Len(p)) = p

RECURSIVE Flatten(_)
Flatten(ss) == IF ss = <<>> THEN <<>> ELSE Head(ss) \o Flatten(Tail(ss))

\* s[-n:] of Python, for n > 0
LastN(s, n) == IF Len(s) <= n THEN s ELSE SubSeq(s, Len(s) - n + 1, Len(s))

----------------------------------------------------------------------------
(* The environment's inputs *)

ExitWord == <<"e", "x", "i", "t">>

ClearWord == <<"c", "l", "e", "a", "r">>

\* lines the input stream may deliver
Lines ==
    { <<"h", "i">>, <<" ", "h", "i", "\t">>,
      <<"e", "x", "i", "t">>, <<" ", "E", "x", "I", "T", " ">>,
      <<"c", "l", "e", "a", "r">>, <<"\t", "C", "L", "e", "a", "R", " ">>,
      <<>>, <<" ", "\t">> }

\* texts the completion service may return
Replies == { <<"o", "k">> }

\* str(e) of the errors the completion call may raise
ErrorDetails == { <<"t", "i", "m", "e", "o", "u", "t">> }

----------------------------------------------------------------------------
(* Messages and the pure parts of the session's operations *)

Msg(role, content) == [role |-> role, content |-> content]

\* variant: the first 20 entries, conversation_history[:20]
RecentHistoryFirst(h) ==
    SubSeq(h, 1, IF Len(h) <= HistoryCutoff THEN Len(h) ELSE HistoryCutoff)

\* get_ai_response: self.conversation_history[-20:]
RecentHistory(h) == LastN(h, HistoryCutoff)

\* variant: synthesized error replies are left out of the request
BuildMessagesFiltered(h, u) ==
    <<Msg("system", SystemPrompt)>>
        \o SelectSeq(RecentHistory(h),
                     LAMBDA m : ~StartsWith(m.content, ErrorPrefix))
        \o <<Msg("user", u)>>

\* get_ai_response: the message list handed to chat.completions.create
BuildMessages(h, u) ==
    <<Msg("system", SystemPrompt)>> \o RecentHistory(h) \o <<Msg("user", u)>>

\* get_ai_response: the reply synthesized in the except branch
ErrorReply(detail) == ErrorPrefix \o detail

\* variant: the system prompt is stored with every pair
ExchangeWithSystem(u, r) ==
    <<Msg("system", SystemPrompt), Msg("user", u), Msg("assistant", r)>>

\* variant: the pair in the other order
ExchangeSwapped(u, r) == <<Msg("assistant", r), Msg("user", u)>>

\* save_conversation: the pair appended to the history
Exchange(u, r) == <<Msg("user", u), Msg("assistant", r)>>

\* datetime.now().isoformat(): the clock's value is not modelled
Timestamp == <<"<timestamp>">>

Dashes(n) == [i \in 1..n |-> "-"]

\* save_conversation: the texts of the four f.write calls, in order
BlockWrites(u, r) ==
    << <<"\n", "[">> \o Timestamp \o <<"]", "\n">>,
       <<"User: ">> \o u \o <<"\n">>,
       <<"Assistant: ">> \o r \o <<"\n">>,
       Dashes(SeparatorLen) \o <<"\n">> >>

\* one complete block of the transcript file
Block(u, r) == Flatten(BlockWrites(u, r))

\* variant: the result of the remote call is ignored
ModerationReturnAlways(result) == TRUE

\* variant: a failed remote call blocks the input (fail-closed)
ModerationReturnClosed(result) == result = "clean"

\* moderate_content: the value returned for each outcome of the remote call
ModerationReturn(result) == result # "flagged"

----------------------------------------------------------------------------
(* Initial state: the session after __init__, at the top of the loop *)

\* the four values main reads from the environment
ConfigKeys == {"endpoint", "api_key", "api_version", "deployed_model"}

Init ==
    /\ config = ConfigKeys
    /\ modInput = <<>>
    /\ pc = "Reading"
    /\ step = "none"
    /\ history = <<>>
    /\ transcript = <<>>
    /\ buf = <<>>
    /\ raw_line = <<>>
    /\ user_input = <<>>
    /\ ai_response = <<>>
    /\ eof = FALSE
    /\ budget = MaxReads
    /\ modResult = "none"
    /\ allowed = TRUE
    /\ complResult = "none"
    /\ messages = <<>>
    /\ nMod = 0
    /\ nCompl = 0
    /\ histAtRead = <<>>
    /\ histAtRequest = <<>>
    /\ transAtRead = <<>>
    /\ outcome = "none"

\* A session that has been running for a while: k exchanges were read,
\* answered and saved, the first with reply a and the others with reply b,
\* and the loop is back at the top.
RECURSIVE Conversation(_, _, _, _)
Conversation(k, u, a, b) ==
    IF k = 0 THEN <<>>
    ELSE IF k = 1 THEN Exchange(u, a)
    ELSE Conversation(k - 1, u, a, b) \o Exchange(u, b)

RECURSIVE TranscriptOf(_)
TranscriptOf(h) ==
    IF Len(h) < 2 THEN <<>>
    ELSE Block(h[1].content, h[2].content) \o TranscriptOf(SubSeq(h, 3, Len(h)))

AnyReplies == Replies \cup { ErrorReply(e) : e \in ErrorDetails }

LongInit ==
    /\ config = ConfigKeys
    /\ pc = "Reading"
    /\ step = "none"
    /\ \E k \in { HistoryCutoff \div 2, HistoryCutoff \div 2 + 1 } :
       \E a \in AnyReplies, b \in AnyReplies :
           /\ history = Conversation(k, Strip(<<"h", "i">>), a, b)
           /\ ai_response = b
    /\ transcript = TranscriptOf(history)
    /\ buf = <<>>
    /\ raw_line = <<"h", "i">>
    /\ user_input = Strip(raw_line)
    /\ eof = FALSE
    /\ budget = MaxReads - 1
    /\ modResult = "clean"
    /\ modInput = user_input
    /\ allowed = TRUE
    /\ complResult =
           (IF StartsWith(ai_response, ErrorPrefix) THEN "fail" ELSE "ok")
    /\ messages = BuildMessages(SubSeq(history, 1, Len(history) - 2), user_input)
    /\ nMod = 1
    /\ nCompl = 1
    /\ histAtRead = SubSeq(history, 1, Len(history) - 2)
    /\ histAtRequest = SubSeq(history, 1, Len(history) - 2)
    /\ transAtRead = TranscriptOf(histAtRead)
    /\ outcome = "saved"

----------------------------------------------------------------------------
(* Reading: input(...).strip() and the dispatch on the stripped line *)

\* what every read of a line sets, whatever the line is
BeginIteration(line) ==
    /\ pc = "Reading"
    /\ ~eof
    /\ budget > 0
    /\ budget' = budget - 1
    /\ raw_line' = line
    /\ user_input' = Strip(line)
    /\ modResult' = "none"
    /\ modInput' = <<>>
    /\ complResult' = "none"
    /\ messages' = <<>>
    /\ nMod' = 0
    /\ nCompl' = 0
    /\ histAtRead' = history
    /\ histAtRequest' = <<>>
    /\ transAtRead' = transcript
    /\ UNCHANGED <<config, step, transcript, buf, ai_response, eof, allowed>>

\* variant: the farewell is printed but the loop goes on
ReadExitContinuing ==
    \E line \in Lines :
        /\ BeginIteration(line)
        /\ Lower(Strip(line)) = ExitWord
        /\ pc' = "Reading"
        /\ outcome' = "exit"
        /\ UNCHANGED history

\* the line is exit: break
ReadExit ==
    \E line \in Lines :
        /\ BeginIteration(line)
        /\ Lower(Strip(line)) = ExitWord
        /\ pc' = "Exiting"
        /\ outcome' = "exit"
        /\ UNCHANGED history

\* variant: clear is acknowledged but the history is kept
ReadClearKeeping ==
    \E line \in Lines :
        /\ BeginIteration(line)
        /\ Lower(Strip(line)) # ExitWord
        /\ Lower(Strip(line)) = ClearWord
        /\ pc' = "Reading"
        /\ outcome' = "cleared"
        /\ UNCHANGED history

\* the line is clear: self.conversation_history = [], continue
ReadClear ==
    \E line \in Lines :
        /\ BeginIteration(line)
        /\ Lower(Strip(line)) # ExitWord
        /\ Lower(Strip(line)) = ClearWord
        /\ history' = <<>>
        /\ pc' = "Reading"
        /\ outcome' = "cleared"

\* variant: the empty line is sent on to moderation
ReadEmptyModerated ==
    \E line \in Lines :
        /\ BeginIteration(line)
        /\ Lower(Strip(line)) \notin {ExitWord, ClearWord}
        /\ Strip(line) = <<>>
        /\ pc' = "Moderating"
        /\ outcome' = "pending"
        /\ UNCHANGED history

\* the line is empty after strip(): continue
ReadEmpty ==
    \E line \in Lines :
        /\ BeginIteration(line)
        /\ Lower(Strip(line)) \notin {ExitWord, ClearWord}
        /\ Strip(line) = <<>>
        /\ pc' = "Reading"
        /\ outcome' = "empty"
        /\ UNCHANGED history

\* variant: the user message is put into the history as soon as it is read
ReadChatAppending ==
    \E line \in Lines :
        /\ BeginIteration(line)
        /\ Lower(Strip(line)) \notin {ExitWord, ClearWord}
        /\ Strip(line) # <<>>
        /\ pc' = "Moderating"
        /\ outcome' = "pending"
        /\ history' = Append(history, Msg("user", Strip(line)))

\* variant: a chat message goes to the completion call unscreened
ReadChatUnscreened ==
    \E line \in Lines :
        /\ BeginIteration(line)
        /\ Lower(Strip(line)) \notin {ExitWord, ClearWord}
        /\ Strip(line) # <<>>
        /\ pc' = "Completing"
        /\ outcome' = "pending"
        /\ UNCHANGED history

\* any other line is a chat message: on to moderation
ReadChat ==
    \E line \in Lines :
        /\ BeginIteration(line)
        /\ Lower(Strip(line)) \notin {ExitWord, ClearWord}
        /\ Strip(line) # <<>>
        /\ pc' = "Moderating"
        /\ outcome' = "pending"
        /\ UNCHANGED history

\* the environment closes the input stream
EndOfInput ==
    /\ pc = "Reading"
    /\ ~eof
    /\ eof' = TRUE
    /\ UNCHANGED <<pc, step, history, transcript, buf, config, modInput,
                   raw_line, user_input, ai_response, budget, modResult,
                   allowed, complResult, messages, nMod, nCompl, histAtRead,
                   histAtRequest, transAtRead, outcome>>

\* input() at end of input raises EOFError, an Exception
ReadEOF ==
    /\ pc = "Reading"
    /\ eof
    /\ pc' = "Handling"
    /\ outcome' = "error"
    /\ modResult' = "none"
    /\ modInput' = <<>>
    /\ complResult' = "none"
    /\ messages' = <<>>
    /\ nMod' = 0
    /\ nCompl' = 0
    /\ histAtRead' = history
    /\ histAtRequest' = <<>>
    /\ transAtRead' = transcript
    /\ UNCHANGED <<step, history, transcript, buf, config, raw_line,
                   user_input, ai_response, eof, budget, allowed>>

\* variant: the handler reports the error and leaves the loop
HandleErrorFatal ==
    /\ pc = "Handling"
    /\ pc' = "Exiting"
    /\ UNCHANGED <<config, modInput, step, history, transcript, buf, raw_line,
                   user_input, ai_response, eof, budget, modResult, allowed,
                   complResult, messages, nMod, nCompl, histAtRead,
                   histAtRequest, transAtRead, outcome>>

\* except Exception: print and log the error, go round the loop again
HandleError ==
    /\ pc = "Handling"
    /\ pc' = "Reading"
    /\ UNCHANGED <<step, history, transcript, buf, config, modInput, raw_line,
                   user_input, ai_response, eof, budget, modResult, allowed,
                   complResult, messages, nMod, nCompl, histAtRead,
                   histAtRequest, transAtRead, outcome>>

----------------------------------------------------------------------------
(* Moderating: moderate_content(user_input) and the test on its result *)

Moderate(result) ==
    /\ nMod' = nMod + 1
    /\ modResult' = result
    /\ modInput' = user_input
    /\ allowed' = ModerationReturn(result)
    /\ IF ModerationReturn(result)
       THEN pc' = "Completing" /\ outcome' = outcome
       ELSE pc' = "Reading" /\ outcome' = "rejected"
    /\ UNCHANGED <<step, history, transcript, buf, config, raw_line,
                   user_input, ai_response, eof, budget, complResult,
                   messages, nCompl, histAtRead, histAtRequest, transAtRead>>

\* the remote call answers: not flagged
ModerateClean ==
    /\ pc = "Moderating"
    /\ Moderate("clean")

\* the remote call answers: flagged
ModerateFlagged ==
    /\ pc = "Moderating"
    /\ Moderate("flagged")

\* the remote call raises
ModerateFail ==
    /\ pc = "Moderating"
    /\ Moderate("fail")

----------------------------------------------------------------------------
(* Completing: get_ai_response(user_input) *)

\* variant: the cutoff is applied to the stored history itself
RequestTruncating ==
    /\ pc = "Completing"
    /\ messages' = BuildMessages(history, user_input)
    /\ histAtRequest' = history
    /\ nCompl' = nCompl + 1
    /\ history' = RecentHistory(history)
    /\ UNCHANGED <<step, transcript, buf, config, modInput, raw_line,
                   user_input, eof, budget, modResult, allowed, nMod,
                   histAtRead, transAtRead, outcome>>

Request ==
    /\ pc = "Completing"
    /\ messages' = BuildMessages(history, user_input)
    /\ histAtRequest' = history
    /\ nCompl' = nCompl + 1
    /\ UNCHANGED <<step, history, transcript, buf, config, modInput, raw_line,
                   user_input, eof, budget, modResult, allowed, nMod,
                   histAtRead, transAtRead, outcome>>

\* the remote call returns a completion
CompleteOk ==
    /\ Request
    /\ complResult' = "ok"
    /\ \E r \in Replies : ai_response' = r
    /\ pc' = "Displaying"

\* variant: the error of the remote call is not caught in get_ai_response
CompleteFailRaising ==
    /\ Request
    /\ complResult' = "fail"
    /\ ai_response' = ai_response
    /\ pc' = "Handling"

\* the remote call raises: the error becomes the reply
CompleteFail ==
    /\ Request
    /\ complResult' = "fail"
    /\ \E e \in ErrorDetails : ai_response' = ErrorReply(e)
    /\ pc' = "Displaying"

----------------------------------------------------------------------------
(* Displaying: print(f"\nAssistant: {ai_response}") *)

\* variant: the reply is shown and the loop goes round without saving it
DisplayOkSkipping ==
    /\ pc = "Displaying"
    /\ pc' = "Reading"
    /\ UNCHANGED <<config, modInput, step, history, transcript, buf, raw_line,
                   user_input, ai_response, eof, budget, modResult, allowed,
                   complResult, messages, nMod, nCompl, histAtRead,
                   histAtRequest, transAtRead, outcome>>

\* the reply is printed: on to save_conversation
DisplayOk ==
    /\ pc = "Displaying"
    /\ pc' = "Persisting"
    /\ step' = "append"
    /\ UNCHANGED <<history, transcript, buf, config, modInput, raw_line,
                   user_input, ai_response, eof, budget, modResult, allowed,
                   complResult, messages, nMod, nCompl, histAtRead,
                   histAtRequest, transAtRead, outcome>>

\* the console cannot take the reply's text: print raises
DisplayFail ==
    /\ pc = "Displaying"
    /\ pc' = "Handling"
    /\ outcome' = "error"
    /\ UNCHANGED <<step, history, transcript, buf, config, modInput, raw_line,
                   user_input, ai_response, eof, budget, modResult, allowed,
                   complResult, messages, nMod, nCompl, histAtRead,
                   histAtRequest, transAtRead>>

----------------------------------------------------------------------------
(* Persisting: save_conversation(user_input, ai_response) *)

\* conversation_history.extend([...])
SaveAppend ==
    /\ pc = "Persisting"
    /\ step = "append"
    /\ history' = history \o Exchange(user_input, ai_response)
    /\ step' = "open"
    /\ UNCHANGED <<pc, transcript, buf, config, modInput, raw_line,
                   user_input, ai_response, eof, budget, modResult, allowed,
                   complResult, messages, nMod, nCompl, histAtRead,
                   histAtRequest, transAtRead, outcome>>

\* open("conversation_log.txt", "a") succeeds
OpenOk ==
    /\ pc = "Persisting"
    /\ step = "open"
    /\ step' = "write"
    /\ buf' = <<>>
    /\ UNCHANGED <<pc, history, transcript, config, modInput, raw_line,
                   user_input, ai_response, eof, budget, modResult, allowed,
                   complResult, messages, nMod, nCompl, histAtRead,
                   histAtRequest, transAtRead, outcome>>

\* leaving save_conversation through its except branch
SaveFailed ==
    /\ pc' = "Reading"
    /\ step' = "none"
    /\ buf' = <<>>
    /\ outcome' = "save_failed"
    /\ UNCHANGED <<history, config, modInput, raw_line, user_input,
                   ai_response, eof, budget, modResult, allowed, complResult,
                   messages, nMod, nCompl, histAtRead, histAtRequest,
                   transAtRead>>

\* open raises
OpenFail ==
    /\ pc = "Persisting"
    /\ step = "open"
    /\ SaveFailed
    /\ UNCHANGED transcript

\* the next f.write succeeds: its text waits in the file object's buffer
WriteOk ==
    /\ pc = "Persisting"
    /\ step = "write"
    /\ Len(buf) < Len(BlockWrites(user_input, ai_response))
    /\ buf' = Append(buf, BlockWrites(user_input, ai_response)[Len(buf) + 1])
    /\ UNCHANGED <<pc, step, history, transcript, config, modInput, raw_line,
                   user_input, ai_response, eof, budget, modResult, allowed,
                   complResult, messages, nMod, nCompl, histAtRead,
                   histAtRequest, transAtRead, outcome>>

\* the next f.write raises: leaving the with block closes the file, which
\* flushes what the earlier writes left in the buffer
WriteFail ==
    /\ pc = "Persisting"
    /\ step = "write"
    /\ Len(buf) < Len(BlockWrites(user_input, ai_response))
    /\ transcript' = transcript \o Flatten(buf)
    /\ SaveFailed

\* variant: the file is opened for writing, not for appending
CloseOkOverwriting ==
    /\ pc = "Persisting"
    /\ step = "write"
    /\ Len(buf) = Len(BlockWrites(user_input, ai_response))
    /\ transcript' = Flatten(buf)
    /\ pc' = "Reading"
    /\ step' = "none"
    /\ buf' = <<>>
    /\ outcome' = "saved"
    /\ UNCHANGED <<history, config, modInput, raw_line, user_input,
                   ai_response, eof, budget, modResult, allowed, complResult,
                   messages, nMod, nCompl, histAtRead, histAtRequest,
                   transAtRead>>

\* all four writes done: close flushes the block into the file
CloseOk ==
    /\ pc = "Persisting"
    /\ step = "write"
    /\ Len(buf) = Len(BlockWrites(user_input, ai_response))
    /\ transcript' = transcript \o Flatten(buf)
    /\ pc' = "Reading"
    /\ step' = "none"
    /\ buf' = <<>>
    /\ outcome' = "saved"
    /\ UNCHANGED <<history, config, modInput, raw_line, user_input,
                   ai_response, eof, budget, modResult, allowed, complResult,
                   messages, nMod, nCompl, histAtRead, histAtRequest,
                   transAtRead>>

\* the flush at close raises after part of the buffer reached the file
CloseFail ==
    /\ pc = "Persisting"
    /\ step = "write"
    /\ Len(buf) = Len(BlockWrites(user_input, ai_response))
    /\ \E j \in 0..(Len(buf) - 1) :
           transcript' = transcript \o Flatten(SubSeq(buf, 1, j))
    /\ SaveFailed

----------------------------------------------------------------------------
(* The interrupt signal: KeyboardInterrupt raised at the current position *)

LoopStates == {"Reading", "Moderating", "Completing", "Displaying", "Persisting"}

\* inside the try body: caught by except KeyboardInterrupt, which breaks.
\* Raised inside the with block, it closes the file on its way out.
Interrupt ==
    /\ pc \in LoopStates
    /\ pc' = "Exiting"
    /\ step' = "none"
    /\ buf' = <<>>
    /\ transcript' = IF pc = "Persisting" /\ step = "write"
                     THEN transcript \o Flatten(buf)
                     ELSE transcript
    /\ outcome' = "interrupted"
    /\ UNCHANGED <<history, config, modInput, raw_line, user_input,
                   ai_response, eof, budget, modResult, allowed, complResult,
                   messages, nMod, nCompl, histAtRead, histAtRequest,
                   transAtRead>>

\* inside the except Exception block: no handler of run_chatbot or main
\* catches it there
InterruptInHandler ==
    /\ pc = "Handling"
    /\ pc' = "Aborted"
    /\ outcome' = "interrupted"
    /\ UNCHANGED <<step, history, transcript, buf, config, modInput, raw_line,
                   user_input, ai_response, eof, budget, modResult, allowed,
                   complResult, messages, nMod, nCompl, histAtRead,
                   histAtRequest, transAtRead>>

----------------------------------------------------------------------------
(* main: the configuration is read and the session is constructed *)

\* the values __init__ hands to openai.AzureOpenAI; the client's constructor
\* raises when one of them is None.  deployed_model is only stored.
ClientArgs == {"endpoint", "api_key", "api_version"}

\* main after the four os.getenv calls: a value that is absent is None
StartInit ==
    /\ config \in SUBSET ConfigKeys
    /\ modInput = <<>>
    /\ pc = "Starting"
    /\ step = "none"
    /\ history = <<>>
    /\ transcript = <<>>
    /\ buf = <<>>
    /\ raw_line = <<>>
    /\ user_input = <<>>
    /\ ai_response = <<>>
    /\ eof = FALSE
    /\ budget = MaxReads
    /\ modResult = "none"
    /\ allowed = TRUE
    /\ complResult = "none"
    /\ messages = <<>>
    /\ nMod = 0
    /\ nCompl = 0
    /\ histAtRead = <<>>
    /\ histAtRequest = <<>>
    /\ transAtRead = <<>>
    /\ outcome = "none"

\* AzureOpenAIChatbot(...) returns and run_chatbot is entered
ConstructOk ==
    /\ pc = "Starting"
    /\ ClientArgs \subseteq config
    /\ pc' = "Reading"
    /\ UNCHANGED <<config, modInput, step, history, transcript, buf, raw_line,
                   user_input, ai_response, eof, budget, modResult, allowed,
                   complResult, messages, nMod, nCompl, histAtRead,
                   histAtRequest, transAtRead, outcome>>

\* the constructor raises: main prints the failure and returns
ConstructFail ==
    /\ pc = "Starting"
    /\ ~(ClientArgs \subseteq config)
    /\ pc' = "Failed"
    /\ outcome' = "init_failed"
    /\ UNCHANGED <<config, modInput, step, history, transcript, buf, raw_line,
                   user_input, ai_response, eof, budget, modResult, allowed,
                   complResult, messages, nMod, nCompl, histAtRead,
                   histAtRequest, transAtRead>>

----------------------------------------------------------------------------
(* Specifications *)

\* the steps the program takes by itself
ProgramStep ==
    \/ ReadExit \/ ReadClear \/ ReadEmpty \/ ReadChat \/ ReadEOF
    \/ HandleError
    \/ ModerateClean \/ ModerateFlagged \/ ModerateFail
    \/ CompleteOk \/ CompleteFail
    \/ DisplayOk \/ DisplayFail
    \/ SaveAppend \/ OpenOk \/ OpenFail \/ WriteOk \/ WriteFail
    \/ CloseOk \/ CloseFail

Next ==
    \/ ReadExit
    \/ ReadClear
    \/ ReadEmpty
    \/ ReadChat
    \/ EndOfInput
    \/ ReadEOF
    \/ HandleError
    \/ ModerateClean
    \/ ModerateFlagged
    \/ ModerateFail
    \/ CompleteOk
    \/ CompleteFail
    \/ DisplayOk
    \/ DisplayFail
    \/ SaveAppend
    \/ OpenOk
    \/ OpenFail
    \/ WriteOk
    \/ WriteFail
    \/ CloseOk
    \/ CloseFail
    \/ Interrupt
    \/ InterruptInHandler

Spec == Init /\ [][Next]_vars

\* the interpreter keeps running the loop: whenever the program can take a
\* step it eventually takes one.  Nothing is assumed of the environment's
\* interrupt or of the input stream's end.
FairSpec == Init /\ [][Next]_vars /\ WF_vars(ProgramStep)

\* the same program, observed from a long-running session on
LongSpec == LongInit /\ [][Next]_vars

\* the whole process, from main on, for every set of configured values
StartNext ==
    \/ ConstructOk
    \/ ConstructFail
    \/ Next

StartSpec == StartInit /\ [][StartNext]_vars

----------------------------------------------------------------------------
(* Properties *)

Min(a, b) == IF a <= b THEN a ELSE b

Terminal == {"Exiting", "Aborted"}

\* the exchange in flight, as it stands in the history and in the file
UserMsg == [role |-> "user", content |-> user_input]

AssistantMsg == [role |-> "assistant", content |-> ai_response]

InNeither == history = histAtRead /\ transcript = transAtRead

InBoth ==
    /\ history = histAtRead \o <<UserMsg, AssistantMsg>>
    /\ transcript = transAtRead \o Block(user_input, ai_response)

\* C1: every completion request carries the system prompt, then the last
\* min(20, len(history)) entries of the history in their stored order, then
\* the current user message; so it has at most 22 entries and its first
\* entry is the system message with the fixed prompt.
C1_RequestShape ==
    nCompl > 0 =>
        LET n == Min(HistoryCutoff, Len(histAtRequest))
            first == Len(histAtRequest) - n
        IN  /\ Len(messages) = n + 2
            /\ messages[1] = [role |-> "system", content |-> SystemPrompt]
            /\ \A i \in 1..n : messages[i + 1] = histAtRequest[first + i]
            /\ messages[n + 2] = UserMsg
            /\ Len(messages) <= HistoryCutoff + 2

\* a request issued while the history holds more than 20 entries, the
\* oldest of which differs from the oldest one sent
C1_Witness ==
    /\ budget < MaxReads - 1
    /\ nCompl = 1
    /\ Len(histAtRequest) > HistoryCutoff
    /\ Len(messages) = HistoryCutoff + 2
    /\ messages[3] # histAtRequest[2]

\* C2: the history is appended to only after a response was obtained: when
\* the completion request is issued the history is what it was when the
\* input line was read, without the message being answered.
C2_AppendAfterResponse ==
    /\ pc \in {"Moderating", "Completing", "Displaying"} => history = histAtRead
    /\ nCompl > 0 => histAtRequest = histAtRead
    /\ Len(history) > Len(histAtRead) => complResult # "none"

\* a request was issued from a history that already holds exchanges
C2_Witness ==
    /\ pc = "Displaying"
    /\ nCompl = 1
    /\ histAtRequest # <<>>
    /\ messages[Len(messages)] = UserMsg

\* C3: when the input stream has ended while the loop is reading, the loop
\* eventually terminates.
C3_EndOfInputTerminates == (pc = "Reading" /\ eof) ~> (pc \in Terminal)

\* C4: an interrupt in any loop state ends the loop, and leaves the exchange
\* in flight either in both the history and the transcript, as a complete
\* block, or in neither.
C4_InterruptNoPartialPersistence ==
    [][ (pc \in LoopStates /\ outcome' = "interrupted")
        => /\ pc' = "Exiting"
           /\ IF pc = "Reading"
              THEN history' = history /\ transcript' = transcript
              ELSE InNeither' \/ InBoth' ]_vars

\* C5: a flagged input is neither answered nor persisted: no completion
\* call, history and transcript as they were, and the loop reads again.
C5_RejectedInputDropped ==
    /\ [](modResult = "flagged"
            => /\ ~allowed
               /\ nCompl = 0
               /\ messages = <<>>
               /\ complResult = "none"
               /\ InNeither
               /\ pc \in {"Reading", "Exiting"})
    /\ [][ (pc = "Moderating" /\ modResult' = "flagged")
            => pc' = "Reading" /\ UNCHANGED <<history, transcript>> ]_vars

\* an input was rejected in a session that holds earlier exchanges
C5_Witness ==
    /\ modResult = "flagged"
    /\ pc = "Reading"
    /\ outcome = "rejected"
    /\ history # <<>>
    /\ transcript # <<>>

\* sub occurs in s as a contiguous run
Contains(s, sub) ==
    \E i \in 0..(Len(s) - Len(sub)) : SubSeq(s, i + 1, i + Len(sub)) = sub

\* what the file gained since the input line was read
Gained == SubSeq(transcript, Len(transAtRead) + 1, Len(transcript))

\* C6: moderation fails open: when the remote moderation call raises,
\* moderate_content returns true without raising and the completion call is
\* still issued; it returns false only when the call reports flagged text.
C6_FailOpen ==
    /\ [][ (pc = "Moderating" /\ modResult' = "fail")
            => allowed' /\ pc' = "Completing" ]_vars
    /\ [][ (pc = "Moderating" /\ nMod' > nMod /\ ~allowed')
            => modResult' = "flagged" ]_vars
    /\ [][ (pc = "Completing" /\ modResult = "fail" /\ outcome' # "interrupted")
            => pc' = "Displaying" /\ nCompl' = 1 /\ messages' # <<>> ]_vars
    /\ [](modResult = "fail" /\ pc \in {"Displaying", "Persisting"}
            => nCompl = 1)

\* the reply to an input whose moderation call failed is on display
C6_Witness ==
    /\ modResult = "fail"
    /\ allowed
    /\ pc = "Displaying"
    /\ nCompl = 1
    /\ messages[Len(messages)] = UserMsg

\* C7: a failed completion call does not raise: its reply starts with the
\* error prefix, and is displayed and persisted like a genuine reply.
C7_ErrorReplyPersisted ==
    /\ [][ (pc = "Completing" /\ complResult' = "fail")
            => pc' = "Displaying" /\ StartsWith(ai_response', ErrorPrefix) ]_vars
    /\ [][ (pc = "Completing" /\ outcome' # "interrupted")
            => pc' = "Displaying" ]_vars
    /\ [][ (pc = "Persisting" /\ step = "append" /\ step' = "open")
            => history' = history \o <<UserMsg, AssistantMsg>> ]_vars
    /\ [](complResult = "fail" => StartsWith(ai_response, ErrorPrefix))
    /\ [](complResult = "fail" /\ outcome = "saved"
            => pc = "Reading" /\ InBoth /\ Contains(Gained, ErrorPrefix))

\* an error reply went through display and persist, back to Reading
C7_Witness ==
    /\ complResult = "fail"
    /\ outcome = "saved"
    /\ pc = "Reading"
    /\ histAtRead # <<>>
    /\ history[Len(history)].role = "assistant"
    /\ StartsWith(history[Len(history)].content, ErrorPrefix)

\* C8: a successful persist(u, r) appends [user(u), assistant(r)] to the
\* history, earlier entries unchanged, and appends exactly one block with
\* "User: u" and "Assistant: r" to the transcript, earlier blocks unchanged.
C8_PersistAppends ==
    outcome = "saved" =>
        /\ pc = "Reading"
        /\ Len(history) = Len(histAtRead) + 2
        /\ SubSeq(history, 1, Len(histAtRead)) = histAtRead
        /\ history[Len(history) - 1] = UserMsg
        /\ history[Len(history)] = AssistantMsg
        /\ transcript = transAtRead \o Block(user_input, ai_response)
        /\ Contains(Gained, <<"User: ">> \o user_input)
        /\ Contains(Gained, <<"Assistant: ">> \o ai_response)

\* an exchange was saved on top of earlier exchanges and blocks
C8_Witness ==
    /\ outcome = "saved"
    /\ histAtRead # <<>>
    /\ transAtRead # <<>>
    /\ budget < MaxReads

\* C9: a failed write of the transcript does not propagate and does not
\* undo the append: the exchange is in the history, the transcript holds no
\* block for it, complete or partial, and the loop reads again.
C9_WriteFailureLeavesNoBlock ==
    outcome = "save_failed" =>
        /\ pc = "Reading"
        /\ history = histAtRead \o <<UserMsg, AssistantMsg>>
        /\ transcript = transAtRead

\* C10: the input clear, in any case and with surrounding whitespace,
\* empties the history, calls neither service, leaves the transcript as it
\* is, and the loop reads again.
C10_ClearResets ==
    /\ [][ (pc = "Reading" /\ budget' < budget
              /\ Lower(Strip(raw_line')) = ClearWord)
            => /\ history' = <<>>
               /\ pc' = "Reading"
               /\ outcome' = "cleared"
               /\ transcript' = transcript
               /\ nMod' = 0 /\ nCompl' = 0 ]_vars
    /\ [](outcome = "cleared"
            => /\ Len(history) = 0
               /\ nMod = 0 /\ nCompl = 0
               /\ modResult = "none" /\ complResult = "none"
               /\ transcript = transAtRead
               /\ pc = "Reading")

\* clear, typed in capitals and with blanks, in a session with exchanges
C10_Witness ==
    /\ outcome = "cleared"
    /\ raw_line # ClearWord
    /\ histAtRead # <<>>
    /\ history = <<>>
    /\ transcript # <<>>

\* C11: the input exit, in any case and with surrounding whitespace, takes
\* the loop from Reading to Exiting with no moderation or completion call
\* and with history and transcript unchanged; in Exiting nothing is read.
C11_ExitTerminates ==
    /\ [][ (pc = "Reading" /\ budget' < budget
              /\ Lower(Strip(raw_line')) = ExitWord)
            => /\ pc' = "Exiting"
               /\ outcome' = "exit"
               /\ nMod' = 0 /\ nCompl' = 0
               /\ history' = history
               /\ transcript' = transcript ]_vars
    /\ [][ pc = "Exiting" => UNCHANGED vars ]_vars
    /\ [](outcome = "exit"
            => /\ pc = "Exiting"
               /\ nMod = 0 /\ nCompl = 0
               /\ modResult = "none" /\ complResult = "none"
               /\ InNeither)

\* exit, typed with capitals and blanks, ended a session with exchanges
C11_Witness ==
    /\ outcome = "exit"
    /\ pc = "Exiting"
    /\ raw_line # ExitWord
    /\ Lower(Strip(raw_line)) = ExitWord
    /\ history # <<>>
    /\ transcript # <<>>

\* C12: an empty or whitespace-only input causes no moderation or
\* completion call, leaves history and transcript unchanged, and the loop
\* stays in Reading.
C12_EmptyInputIgnored ==
    /\ [][ (pc = "Reading" /\ budget' < budget /\ Strip(raw_line') = <<>>)
            => /\ pc' = "Reading"
               /\ outcome' = "empty"
               /\ nMod' = 0 /\ nCompl' = 0
               /\ history' = history
               /\ transcript' = transcript ]_vars
    /\ [](outcome = "empty"
            => /\ pc = "Reading"
               /\ nMod = 0 /\ nCompl = 0
               /\ modResult = "none" /\ complResult = "none"
               /\ InNeither)

\* a line of blanks was read in a session with exchanges
C12_Witness ==
    /\ outcome = "empty"
    /\ raw_line # <<>>
    /\ user_input = <<>>
    /\ pc = "Reading"
    /\ history # <<>>
    /\ transcript # <<>>

\* C13: a missing configuration value is fatal to startup: if any of the
\* four values is absent, the session is not constructed and the loop is not
\* entered, so no input is read and no remote call is made.
C13_MissingConfigFatal ==
    config # ConfigKeys =>
        /\ pc \in {"Starting", "Failed"}
        /\ budget = MaxReads
        /\ nMod = 0
        /\ nCompl = 0

\* C14 as stated: once an input has passed moderation and no interrupt
\* arrives, the exchange whose reply was obtained is persisted to the history
\* by the time the loop reads again, also when displaying the reply raised.
C14_ReplyAlwaysPersisted ==
    (pc = "Reading" /\ complResult # "none")
        => history = histAtRead \o <<UserMsg, AssistantMsg>>

\* C14 as amended: once an input has passed moderation and no interrupt
\* arrives, the loop goes Completing -> Displaying; if the reply is displayed
\* without error it goes on Displaying -> Persisting -> Reading and the
\* exchange is appended to the history; if displaying raises, the loop goes
\* back to Reading through the error handler and the exchange is in neither
\* the history nor the transcript.
C14_ReplyPersistedUnlessDisplayFails ==
    /\ [](pc = "Reading" /\ complResult # "none" /\ outcome # "error"
            => history = histAtRead \o <<UserMsg, AssistantMsg>>)
    /\ [](pc = "Reading" /\ complResult # "none" /\ outcome = "error"
            => InNeither)
    /\ [][ (pc = "Completing" /\ outcome' # "interrupted")
            => pc' = "Displaying" ]_vars
    /\ [][ (pc = "Displaying" /\ outcome' \notin {"interrupted", "error"})
            => pc' = "Persisting" ]_vars
    /\ [][ (pc = "Displaying" /\ outcome' = "error")
            => pc' = "Handling" /\ UNCHANGED <<history, transcript>> ]_vars
    /\ [][ (pc = "Persisting" /\ outcome' # "interrupted")
            => pc' \in {"Persisting", "Reading"} ]_vars
    /\ (pc = "Completing")
          ~> (\/ Len(history) > Len(histAtRead)
              \/ outcome \in {"error", "interrupted"})

\* the reply was obtained, its display raised, and the loop reads again
\* with the exchange not persisted
C14_Witness ==
    /\ pc = "Reading"
    /\ complResult # "none"
    /\ allowed
    /\ outcome = "error"
    /\ InNeither
    /\ histAtRead # <<>>

\* C15: the loop is never fatal: a local error other than an interrupt,
\* raised in any loop state, is caught at the loop boundary and the loop
\* returns to Reading with the session intact; no error of a remote call
\* moves the loop to Exiting.
C15_LoopNeverFatal ==
    /\ [][ (pc \in LoopStates /\ pc' \notin LoopStates
              /\ outcome' \notin {"exit", "interrupted"})
            => pc' = "Handling" /\ outcome' = "error" ]_vars
    /\ [][ (pc = "Handling" /\ outcome' # "interrupted")
            => pc' = "Reading" /\ UNCHANGED <<history, transcript, config>> ]_vars
    /\ [][ (nMod' > nMod \/ nCompl' > nCompl) => pc' \in LoopStates ]_vars
    /\ [](pc \in Terminal => outcome \in {"exit", "interrupted"})
    /\ [](pc = "Reading" /\ outcome = "error"
            => step = "none" /\ buf = <<>> /\ InNeither)

\* both remote calls failed, the display of the error reply raised, and
\* the loop is reading again with input still to come
C15_Witness ==
    /\ pc = "Reading"
    /\ outcome = "error"
    /\ modResult = "fail"
    /\ complResult = "fail"
    /\ ~eof
    /\ budget > 0

IsPrefix(s, t) == Len(s) <= Len(t) /\ SubSeq(t, 1, Len(s)) = s

\* the step reads a line that is the clear command
ClearStep ==
    /\ pc = "Reading"
    /\ budget' < budget
    /\ Lower(Strip(raw_line')) = ClearWord

\* C16: the history is reset only by the clear command: every other step
\* leaves the history as a prefix of what it is afterwards, so no entry is
\* removed, reordered or rewritten, and building a request with the 20-entry
\* cutoff leaves the stored history as it was.
C16_HistoryResetOnlyByClear ==
    /\ [][ ClearStep \/ IsPrefix(history, history') ]_vars
    /\ [][ nCompl' > nCompl => history' = history ]_vars
    /\ [][ history' # history
            => \/ ClearStep
               \/ pc = "Persisting" /\ Len(history') = Len(history) + 2 ]_vars

\* a request was cut to the last 20 entries and the stored history, still
\* longer than the cutoff, has since been extended
C16_Witness ==
    /\ budget < MaxReads - 1
    /\ Len(histAtRequest) > HistoryCutoff
    /\ Len(messages) = HistoryCutoff + 2
    /\ Len(history) > Len(histAtRequest)
    /\ IsPrefix(histAtRequest, history)

\* C17: the transcript is cumulative: what the file holds before a step is
\* a prefix of what it holds after it, whatever the step (chat, clear,
\* rejected input, failed completion, failed write, exit), and only the
\* persist step adds to it.
C17_TranscriptCumulative ==
    /\ [][ IsPrefix(transcript, transcript') ]_vars
    /\ [][ transcript' # transcript
            => pc = "Persisting" /\ step \in {"open", "write"} ]_vars

\* a block was added to a file that already held one, after a clear
C17_Witness ==
    /\ histAtRead = <<>>
    /\ transAtRead # <<>>
    /\ Len(transcript) > Len(transAtRead)
    /\ outcome = "saved"

\* C18: in every reachable state the history has even length and its
\* entries alternate user, assistant, user, assistant, ... starting with
\* user; the system prompt is never stored in it, so every completion
\* request holds exactly one system message.
C18_HistoryAlternates ==
    /\ Len(history) % 2 = 0
    /\ \A i \in 1..Len(history) :
           history[i].role = (IF i % 2 = 1 THEN "user" ELSE "assistant")
    /\ messages # <<>>
           => /\ messages[1] = Msg("system", SystemPrompt)
              /\ Cardinality({ i \in 1..Len(messages) :
                                   messages[i].role = "system" }) = 1

\* two exchanges are stored and the last request was built on a history
\* that held one already
C18_Witness ==
    /\ Len(history) >= 4
    /\ histAtRequest # <<>>
    /\ Len(messages) = Len(histAtRequest) + 2
    /\ outcome = "saved"

\* C19: every completion call is preceded, in the same iteration and with
\* nothing between, by exactly one moderation call on the same input text
\* whose outcome was allowed (not flagged, or failed open); an input line
\* causes at most one moderation call and at most one completion call, and
\* no completion call is issued for unscreened input.
C19_ScreenedBeforeCompletion ==
    /\ [](nMod <= 1 /\ nCompl <= 1)
    /\ [](nCompl = 1
            => /\ nMod = 1
               /\ allowed
               /\ modResult \in {"clean", "fail"}
               /\ modInput = user_input
               /\ messages[Len(messages)] = Msg("user", modInput))
    /\ [][ nCompl' > nCompl => pc = "Completing" /\ nMod = 1 /\ allowed ]_vars
    /\ [][ (pc # "Completing" /\ pc' = "Completing")
            => /\ pc = "Moderating"
               /\ nMod' = nMod + 1
               /\ modInput' = user_input
               /\ allowed' ]_vars
    /\ [][ nMod' > nMod => nMod = 0 /\ nCompl = 0 ]_vars

\* a completion call was issued after the moderation call failed open, in
\* an iteration that is not the first
C19_Witness ==
    /\ nCompl = 1
    /\ nMod = 1
    /\ modResult = "fail"
    /\ budget < MaxReads - 1
    /\ pc \in {"Displaying", "Persisting"}

\* positions of the stored history that a request built on it carries
Window(h) == { i \in 1..Len(h) : i > Len(h) - HistoryCutoff }

\* C20: a synthesized error reply is stored as an ordinary assistant
\* message: a later request built on a history that still holds it within
\* its last 20 entries carries the text as an assistant message, and the
\* stored entries have a role and a content and nothing that tells an error
\* reply from a genuine one.
C20_ErrorReplySentBack ==
    /\ \A i \in 1..Len(history) : DOMAIN history[i] = {"role", "content"}
    /\ \A i \in 1..Len(history) :
           StartsWith(history[i].content, ErrorPrefix)
               => history[i].role = "assistant"
    /\ nCompl = 1
           => \A i \in Window(histAtRequest) :
                  StartsWith(histAtRequest[i].content, ErrorPrefix)
                      => messages[i - Len(histAtRequest)
                                    + Len(messages) - 1]
                           = Msg("assistant", histAtRequest[i].content)

\* the error reply of a failed completion is the last stored entry of a
\* history longer than the cutoff, and the next request carries it
C20_Witness ==
    /\ pc = "Displaying"
    /\ Len(histAtRequest) = HistoryCutoff + 4
    /\ histAtRequest[Len(histAtRequest)].role = "assistant"
    /\ StartsWith(histAtRequest[Len(histAtRequest)].content, ErrorPrefix)
    /\ StartsWith(messages[Len(messages) - 1].content, ErrorPrefix)

====
